---- MODULE Spec2Model ----
(***************************************************************************)
(* Model of crates/ilp-cli/src/interpreter.rs: the dispatch of one parsed  *)
(* ilp-cli invocation (run) to a NodeClient handler, the extraction of the *)
(* arguments (extract_args, unflatten_pairs) and the HTTP request each     *)
(* handler builds and sends.                                               *)
(*                                                                         *)
(* Strings are TLA+ strings, format!() is concatenation (\o).  An          *)
(* ArgMatches is modelled by its `args` hash map: a function whose domain  *)
(* is the set of argument names that were matched and whose values are the *)
(* captured values (a flag is matched with no value).  Values are valid    *)
(* UTF-8 texts, on which OsStr::to_str is Some of the same text.           *)
(***************************************************************************)
EXTENDS Integers, Sequences, FiniteSets, TLC

VARIABLES
    node_url,     \* matches.value_of("node_url"), the NodeClient's url
    category,     \* name of the top-level subcommand, "" when there is none
    action,       \* name of the second-level subcommand, "" when there is none
    args,         \* ArgMatches.args of the matches handed to the handler
    pc,           \* "start" -> "handler" -> "done"
    handler,      \* the NodeClient method run() resolved, "" when none
    extracted,    \* what the handler's call of extract_args or
                  \* unflatten_pairs returned: [fn, panic, auth, args]
    result,       \* how run() ended: [kind, msg]
    sent          \* the requests handed to send(), in order

vars == <<node_url, category, action, args, pc, handler, extracted, result,
          sent>>

----------------------------------------------------------------------------
(* Bounds and input sets *)

MaxHalve == 4

Tokens == {"a", "b"}

NodeUrls == {"http://localhost:7770"}

\* subcommand names the parser can deliver; "other" stands for a name the
\* parser knows and the dispatch table does not
Categories == {"accounts", "pay", "rates", "routes", "settlement-engines",
               "status", "other"}

ActionsOf(c) ==
    CASE c = "accounts" -> {"balance", "create", "delete", "incoming-payments",
                            "info", "list", "update", "other", ""}
      [] c = "rates" -> {"list", "set-all", "other", ""}
      [] c = "routes" -> {"list", "set", "set-all", "other", ""}
      [] c = "settlement-engines" -> {"set-all", "other", ""}
      [] OTHER -> {""}

\* an argument is absent (<<>>) or matched with its captured values (<<vals>>)
Absent == <<>>
Matched(vals) == <<vals>>

FlagEntries == {Absent, Matched(<<>>)}
AuthEntries == {Absent, Matched(<<"secret">>), Matched(<<"hunter2", "secret">>)}
UserEntries == {Absent, Matched(<<"alice">>)}
SenderEntries == {Absent, Matched(<<"bob">>)}
PrefixEntries == {Absent, Matched(<<"g.usd">>)}
DestinationEntries == {Absent, Matched(<<"peer.usd">>)}
AssetEntries == {Absent, Matched(<<"USD">>), Matched(<<"XRP", "USD">>)}
HalveEntries ==
    {Absent} \cup
    {Matched(s) : s \in UNION {[1..k -> Tokens] : k \in 0..MaxHalve}}

ArgNames == {"authorization_key", "username", "sender_username", "overwrite",
             "is_admin", "prefix", "destination", "asset_code", "halve"}

\* the hash map of the matched arguments
ArgsOf(entries) ==
    [n \in {m \in ArgNames : entries[m] # Absent} |-> entries[n][1]]

----------------------------------------------------------------------------
(* clap's ArgMatches accessors *)

is_present(matches, name) == name \in DOMAIN matches

\* Option<&str>: <<>> is None, <<s>> is Some(s)
value_of(matches, name) ==
    IF name \in DOMAIN matches /\ Len(matches[name]) > 0
    THEN <<matches[name][1]>>
    ELSE <<>>

\* Option<Values>: <<>> is None, <<vals>> is Some(vals)
values_of(matches, name) ==
    IF name \in DOMAIN matches THEN <<matches[name]>> ELSE <<>>

----------------------------------------------------------------------------
(* HashMap helpers *)

EmptyMap == [k \in {} |-> ""]

\* faulty variant of insert: a key already in the map keeps its value
insert_keep_first(map, k, v) ==
    [x \in DOMAIN map \cup {k} |-> IF x \in DOMAIN map THEN map[x] ELSE v]

insert(map, k, v) ==
    [x \in DOMAIN map \cup {k} |-> IF x = k THEN v ELSE map[x]]

remove(map, k) == [x \in DOMAIN map \ {k} |-> map[x]]

----------------------------------------------------------------------------
(* extract_args and unflatten_pairs.  Both return [fn, panic, auth, args]:  *)
(* fn names the function, panic is "" when it returns and the panic's      *)
(* message when it does not.                                               *)

Returned(fn, auth, map) ==
    [fn |-> fn, panic |-> "", auth |-> auth, args |-> map]

Panicked(fn, msg) ==
    [fn |-> fn, panic |-> msg, auth |-> "", args |-> [k \in {} |-> ""]]

NotCalled == Returned("", "", [k \in {} |-> ""])

\* faulty variant of extract_args: the auth key is read, not removed
extract_args_keeps_auth(matches) ==
    LET collected ==
            [key \in {k \in DOMAIN matches : Len(matches[k]) > 0}
                |-> matches[key][1]]
    IN  IF "authorization_key" \in DOMAIN collected
        THEN Returned("extract_args", collected["authorization_key"], collected)
        ELSE Panicked("extract_args", "unwrap on None")

extract_args(matches) ==
    LET collected ==
            [key \in {k \in DOMAIN matches : Len(matches[k]) > 0}
                |-> matches[key][1]]
    IN  IF "authorization_key" \in DOMAIN collected
        THEN Returned("extract_args", collected["authorization_key"],
                      remove(collected, "authorization_key"))
        ELSE Panicked("extract_args", "unwrap on None")

\* slice::windows(size): the start positions (0-based) of the windows
windows(len, size) ==
    IF len < size THEN <<>> ELSE [i \in 1..(len - size + 1) |-> i - 1]

\* faulty variant of step_by: every element, whatever the step
step_by_every(seq, step) == seq

\* Iterator::step_by(step): the first element and every step-th after it
step_by(seq, step) ==
    [j \in 1..((Len(seq) + step - 1) \div step) |-> seq[(j - 1) * step + 1]]

WindowSize == 2
Step == 2

\* the window starts the loop of unflatten_pairs visits
PairStarts(halves) == step_by(windows(Len(halves), WindowSize), Step)

RECURSIVE InsertPairs(_, _, _)
InsertPairs(pairs, halves, starts) ==
    IF starts = <<>> THEN pairs
    ELSE InsertPairs(insert(pairs, halves[Head(starts) + 1],
                            halves[Head(starts) + 2]),
                     halves, Tail(starts))

unflatten_pairs(matches) ==
    LET halve_matches == values_of(matches, "halve")
        pairs == IF halve_matches # <<>>
                 THEN InsertPairs(EmptyMap, halve_matches[1],
                                  PairStarts(halve_matches[1]))
                 ELSE EmptyMap
        auth == value_of(matches, "authorization_key")
    IN  IF auth # <<>>
        THEN Returned("unflatten_pairs", auth[1], pairs)
        ELSE Panicked("unflatten_pairs", "unwrap on None")

----------------------------------------------------------------------------
(* Requests and outcomes *)

NoBearer == <<>>
Bearer(token) == <<token>>

NoBody == [kind |-> "none", json |-> EmptyMap, raw |-> ""]
Json(map) == [kind |-> "json", json |-> map, raw |-> ""]
Raw(text) == [kind |-> "raw", json |-> EmptyMap, raw |-> text]

Request(method, url, bearer, body) ==
    [method |-> method, url |-> url, bearer |-> bearer, body |-> body]

Outcome(kind, msg) == [kind |-> kind, msg |-> msg]

Running == Outcome("", "")

\* faulty variant of Send: the request is issued twice
Send_twice(req) ==
    /\ sent' = Append(Append(sent, req), req)
    /\ \E kind \in {"Response", "ClientErr"} : result' = Outcome(kind, "")
    /\ pc' = "done"
    /\ UNCHANGED <<node_url, category, action, args, handler>>

\* .send().map_err(Error::ClientErr): the one network call; the transport
\* answers with a response or fails
Send(req) ==
    /\ sent' = Append(sent, req)
    /\ \E kind \in {"Response", "ClientErr"} : result' = Outcome(kind, "")
    /\ pc' = "done"
    /\ UNCHANGED <<node_url, category, action, args, handler>>

Panic(msg) ==
    /\ result' = Outcome("Panic", msg)
    /\ pc' = "done"
    /\ UNCHANGED <<node_url, category, action, args, handler, sent>>

----------------------------------------------------------------------------
Init ==
    /\ node_url \in NodeUrls
    /\ category \in Categories \cup {""}
    /\ action \in ActionsOf(category)
    /\ \E au \in AuthEntries, us \in UserEntries, se \in SenderEntries,
          ow \in FlagEntries, ad \in FlagEntries, pr \in PrefixEntries,
          de \in DestinationEntries, ac \in AssetEntries, ha \in HalveEntries :
          args = ArgsOf([authorization_key |-> au, username |-> us,
                         sender_username |-> se, overwrite |-> ow,
                         is_admin |-> ad, prefix |-> pr, destination |-> de,
                         asset_code |-> ac, halve |-> ha])
    /\ pc = "start"
    /\ handler = ""
    /\ extracted = NotCalled
    /\ result = Running
    /\ sent = <<>>

----------------------------------------------------------------------------
(* run: the two-level match on the subcommands *)

\* the handler a command path resolves to, "" when the table has none
HandlerOf(c, a) ==
    CASE c = "accounts" /\ a = "balance" -> "get_account_balance"
      [] c = "accounts" /\ a = "create" -> "post_or_put_accounts"
      [] c = "accounts" /\ a = "delete" -> "delete_account"
      [] c = "accounts" /\ a = "incoming-payments" -> "ws_account_payments_incoming"
      [] c = "accounts" /\ a = "info" -> "get_account"
      [] c = "accounts" /\ a = "list" -> "get_accounts"
      [] c = "accounts" /\ a = "update" /\ is_present(args, "is_admin") -> "put_account"
      [] c = "accounts" /\ a = "update" -> "put_account_settings"
      [] c = "pay" -> "post_account_payments"
      [] c = "rates" /\ a = "list" -> "get_rates"
      [] c = "rates" /\ a = "set-all" -> "put_rates"
      [] c = "routes" /\ a = "list" -> "get_routes"
      [] c = "routes" /\ a = "set" -> "put_route_static"
      [] c = "routes" /\ a = "set-all" -> "put_routes_static"
      [] c = "settlement-engines" /\ a = "set-all" -> "put_settlement_engines"
      [] c = "status" -> "get_root"
      [] OTHER -> ""

HasActions(c) == c \in {"accounts", "rates", "routes", "settlement-engines"}

Resolve ==
    /\ pc = "start"
    /\ category # ""
    /\ HandlerOf(category, action) # ""
    /\ handler' = HandlerOf(category, action)
    /\ pc' = "handler"
    /\ UNCHANGED <<node_url, category, action, args, extracted, result, sent>>

UsageErr ==
    /\ pc = "start"
    /\ \/ /\ category = ""
          /\ result' = Outcome("UsageErr", "ilp-cli help")
       \/ /\ HasActions(category)
          /\ action = ""
          /\ result' = Outcome("UsageErr", "ilp-cli help " \o category)
    /\ pc' = "done"
    /\ UNCHANGED <<node_url, category, action, args, handler, extracted, sent>>

\* faulty variant of Unhandled: an unknown action answered with the
\* category's usage error
Unhandled_as_usage ==
    /\ pc = "start"
    /\ category # ""
    /\ UNCHANGED extracted
    /\ \/ /\ HasActions(category)
          /\ action # ""
          /\ HandlerOf(category, action) = ""
          /\ result' = Outcome("UsageErr", "ilp-cli help " \o category)
          /\ pc' = "done"
          /\ UNCHANGED <<node_url, category, action, args, handler, sent>>
       \/ /\ ~HasActions(category)
          /\ HandlerOf(category, action) = ""
          /\ Panic("Unhandled ilp-cli subcommand: " \o category)

Unhandled ==
    /\ pc = "start"
    /\ category # ""
    /\ UNCHANGED extracted
    /\ \/ /\ HasActions(category)
          /\ action # ""
          /\ HandlerOf(category, action) = ""
          /\ Panic("Unhandled ilp-cli " \o category \o " subcommand: " \o action)
       \/ /\ ~HasActions(category)
          /\ HandlerOf(category, action) = ""
          /\ Panic("Unhandled ilp-cli subcommand: " \o category)

----------------------------------------------------------------------------
(* NodeClient's handlers *)

At(name) == pc = "handler" /\ handler = name

get_account_balance ==
    /\ At("get_account_balance")
    /\ LET e == extract_args(args) IN
       /\ extracted' = e
       /\ IF e.panic # "" THEN Panic(e.panic)
          ELSE IF "username" \notin DOMAIN e.args THEN Panic("unwrap on None")
          ELSE Send(Request("GET",
                         node_url \o "/accounts/" \o e.args["username"] \o "/balance",
                         Bearer(e.auth), NoBody))

\* faulty variant of post_or_put_accounts: the two branches exchanged
post_or_put_accounts_swapped ==
    /\ pc = "handler" /\ handler = "post_or_put_accounts"
    /\ LET e == extract_args(args) IN
       /\ extracted' = e
       /\ IF e.panic # "" THEN Panic(e.panic)
          ELSE IF ~is_present(args, "overwrite")
          THEN Send(Request("PUT", node_url \o "/accounts",
                         Bearer(e.auth), Json(e.args)))
          ELSE IF "username" \notin DOMAIN e.args THEN Panic("key not in map")
          ELSE Send(Request("POST", node_url \o "/accounts/" \o e.args["username"],
                         Bearer(e.auth), Json(e.args)))

post_or_put_accounts ==
    /\ At("post_or_put_accounts")
    /\ LET e == extract_args(args) IN
       /\ extracted' = e
       /\ IF e.panic # "" THEN Panic(e.panic)
          ELSE IF is_present(args, "overwrite")
          THEN Send(Request("PUT", node_url \o "/accounts",
                         Bearer(e.auth), Json(e.args)))
          ELSE IF "username" \notin DOMAIN e.args THEN Panic("key not in map")
          ELSE Send(Request("POST", node_url \o "/accounts/" \o e.args["username"],
                         Bearer(e.auth), Json(e.args)))

delete_account ==
    /\ At("delete_account")
    /\ LET e == extract_args(args) IN
       /\ extracted' = e
       /\ IF e.panic # "" THEN Panic(e.panic)
          ELSE IF "username" \notin DOMAIN e.args THEN Panic("key not in map")
          ELSE Send(Request("DELETE", node_url \o "/accounts/" \o e.args["username"],
                         Bearer(e.auth), NoBody))

ws_account_payments_incoming ==
    /\ At("ws_account_payments_incoming")
    /\ UNCHANGED extracted
    /\ Panic("not yet implemented")

get_account ==
    /\ At("get_account")
    /\ LET e == extract_args(args) IN
       /\ extracted' = e
       /\ IF e.panic # "" THEN Panic(e.panic)
          ELSE IF "username" \notin DOMAIN e.args THEN Panic("key not in map")
          ELSE Send(Request("GET", node_url \o "/accounts/" \o e.args["username"],
                         Bearer(e.auth), NoBody))

get_accounts ==
    /\ At("get_accounts")
    /\ LET e == extract_args(args) IN
       /\ extracted' = e
       /\ IF e.panic # "" THEN Panic(e.panic)
          ELSE Send(Request("GET", node_url \o "/accounts", Bearer(e.auth), NoBody))

put_account ==
    /\ At("put_account")
    /\ LET e == extract_args(args) IN
       /\ extracted' = e
       /\ IF e.panic # "" THEN Panic(e.panic)
          ELSE IF "username" \notin DOMAIN e.args THEN Panic("unwrap on None")
          ELSE Send(Request("PUT", node_url \o "/accounts/" \o e.args["username"],
                         Bearer(e.auth), Json(remove(e.args, "username"))))

\* faulty variant of put_account_settings: the username is read, not removed
put_account_settings_keeps_username ==
    /\ pc = "handler" /\ handler = "put_account_settings"
    /\ LET e == extract_args(args) IN
       /\ extracted' = e
       /\ IF e.panic # "" THEN Panic(e.panic)
          ELSE IF "username" \notin DOMAIN e.args THEN Panic("key not in map")
          ELSE Send(Request("PUT",
                         node_url \o "/accounts/" \o e.args["username"] \o "/settings",
                         Bearer(e.auth), Json(e.args)))

put_account_settings ==
    /\ At("put_account_settings")
    /\ LET e == extract_args(args) IN
       /\ extracted' = e
       /\ IF e.panic # "" THEN Panic(e.panic)
          ELSE IF "username" \notin DOMAIN e.args THEN Panic("unwrap on None")
          ELSE Send(Request("PUT",
                         node_url \o "/accounts/" \o e.args["username"] \o "/settings",
                         Bearer(e.auth), Json(remove(e.args, "username"))))

\* faulty variant of post_account_payments: the bare token as bearer
post_account_payments_bare_token ==
    /\ pc = "handler" /\ handler = "post_account_payments"
    /\ LET e == extract_args(args) IN
       /\ extracted' = e
       /\ IF e.panic # "" THEN Panic(e.panic)
          ELSE IF "sender_username" \notin DOMAIN e.args THEN Panic("unwrap on None")
          ELSE LET user == e.args["sender_username"] IN
            Send(Request("POST", node_url \o "/accounts/" \o user \o "/payments",
                         Bearer(e.auth),
                         Json(remove(e.args, "sender_username"))))

post_account_payments ==
    /\ At("post_account_payments")
    /\ LET e == extract_args(args) IN
       /\ extracted' = e
       /\ IF e.panic # "" THEN Panic(e.panic)
          ELSE IF "sender_username" \notin DOMAIN e.args THEN Panic("unwrap on None")
          ELSE LET user == e.args["sender_username"] IN
            Send(Request("POST", node_url \o "/accounts/" \o user \o "/payments",
                         Bearer(user \o ":" \o e.auth),
                         Json(remove(e.args, "sender_username"))))

get_rates ==
    /\ At("get_rates")
    /\ UNCHANGED extracted
    /\ Send(Request("GET", node_url \o "/rates", NoBearer, NoBody))

put_rates ==
    /\ At("put_rates")
    /\ LET u == unflatten_pairs(args) IN
       /\ extracted' = u
       /\ IF u.panic # "" THEN Panic(u.panic)
          ELSE Send(Request("PUT", node_url \o "/rates", Bearer(u.auth), Json(u.args)))

\* faulty variant of get_routes: authenticated like get_accounts
get_routes_authenticated ==
    /\ pc = "handler" /\ handler = "get_routes"
    /\ LET e == extract_args(args) IN
       /\ extracted' = e
       /\ IF e.panic # "" THEN Panic(e.panic)
          ELSE Send(Request("GET", node_url \o "/routes", Bearer(e.auth), NoBody))

get_routes ==
    /\ At("get_routes")
    /\ UNCHANGED extracted
    /\ Send(Request("GET", node_url \o "/routes", NoBearer, NoBody))

put_route_static ==
    /\ At("put_route_static")
    /\ LET e == extract_args(args) IN
       /\ extracted' = e
       /\ IF e.panic # "" THEN Panic(e.panic)
          ELSE IF "prefix" \notin DOMAIN e.args THEN Panic("key not in map")
          ELSE IF "destination" \notin DOMAIN e.args THEN Panic("key not in map")
          ELSE Send(Request("PUT", node_url \o "/routes/static/" \o e.args["prefix"],
                         Bearer(e.auth), Raw(e.args["destination"])))

put_routes_static ==
    /\ At("put_routes_static")
    /\ LET u == unflatten_pairs(args) IN
       /\ extracted' = u
       /\ IF u.panic # "" THEN Panic(u.panic)
          ELSE Send(Request("PUT", node_url \o "/routes/static",
                         Bearer(u.auth), Json(u.args)))

put_settlement_engines ==
    /\ At("put_settlement_engines")
    /\ LET u == unflatten_pairs(args) IN
       /\ extracted' = u
       /\ IF u.panic # "" THEN Panic(u.panic)
          ELSE Send(Request("PUT", node_url \o "/settlement/engines",
                         Bearer(u.auth), Json(u.args)))

get_root ==
    /\ At("get_root")
    /\ UNCHANGED extracted
    /\ Send(Request("GET", node_url \o "/", NoBearer, NoBody))

----------------------------------------------------------------------------
Next ==
    \/ Resolve
    \/ UsageErr
    \/ Unhandled
    \/ get_account_balance
    \/ post_or_put_accounts
    \/ delete_account
    \/ ws_account_payments_incoming
    \/ get_account
    \/ get_accounts
    \/ put_account
    \/ put_account_settings
    \/ post_account_payments
    \/ get_rates
    \/ put_rates
    \/ get_routes
    \/ put_route_static
    \/ put_routes_static
    \/ put_settlement_engines
    \/ get_root

Spec == Init /\ [][Next]_vars

----------------------------------------------------------------------------
(* Properties.  They are stated on the invocation's inputs (category,      *)
(* action, args, node_url) and on what run() left behind (handler,         *)
(* extracted, result, sent).                                               *)

AuthKey == "authorization_key"

\* the argument was matched with at least one captured value
Valued(name) == name \in DOMAIN args /\ Len(args[name]) > 0

\* the first captured value of a valued argument
First(name) == args[name][1]

Done == pc = "done"

On(c, a) == Done /\ category = c /\ action = a

\* the names an ArgumentSet holds: valued, and not the auth key
PayloadNames == {n \in DOMAIN args : Len(args[n]) > 0} \ {AuthKey}

\* C1: `accounts create` with an auth key and a username: without the
\* overwrite flag the request is POST {node}/accounts/{username} and its JSON
\* body still holds the username; with the flag it is PUT {node}/accounts.
C1_AccountsCreate ==
    (On("accounts", "create") /\ Valued(AuthKey) /\ Valued("username")) =>
        /\ Len(sent) = 1
        /\ sent[1].body.kind = "json"
        /\ IF "overwrite" \in DOMAIN args
           THEN /\ sent[1].method = "PUT"
                /\ sent[1].url = node_url \o "/accounts"
           ELSE /\ sent[1].method = "POST"
                /\ sent[1].url = node_url \o "/accounts/" \o First("username")
                /\ "username" \in DOMAIN sent[1].body.json
                /\ sent[1].body.json["username"] = First("username")

C1_Witness ==
    /\ On("accounts", "create") /\ Valued(AuthKey) /\ Valued("username")
    /\ "overwrite" \notin DOMAIN args
    /\ Len(sent) = 1
    /\ sent[1].method = "POST"
    /\ sent[1].url = "http://localhost:7770/accounts/alice"
    /\ sent[1].body.json["username"] = "alice"

\* C2: `accounts update` with an auth key and a username: the request is
\* PUT {node}/accounts/{username} when is_admin is present and
\* PUT {node}/accounts/{username}/settings otherwise; the JSON body has no
\* username and holds every other valued non-auth argument unchanged.
C2_AccountsUpdate ==
    (On("accounts", "update") /\ Valued(AuthKey) /\ Valued("username")) =>
        /\ Len(sent) = 1
        /\ sent[1].method = "PUT"
        /\ sent[1].url =
              IF "is_admin" \in DOMAIN args
              THEN node_url \o "/accounts/" \o First("username")
              ELSE node_url \o "/accounts/" \o First("username") \o "/settings"
        /\ sent[1].body.kind = "json"
        /\ "username" \notin DOMAIN sent[1].body.json
        /\ \A n \in PayloadNames \ {"username"} :
              /\ n \in DOMAIN sent[1].body.json
              /\ sent[1].body.json[n] = First(n)

C2_Witness ==
    /\ On("accounts", "update") /\ Valued(AuthKey) /\ Valued("username")
    /\ "is_admin" \notin DOMAIN args
    /\ Valued("asset_code")
    /\ Len(sent) = 1
    /\ sent[1].url = "http://localhost:7770/accounts/alice/settings"
    /\ sent[1].body.json["asset_code"] = First("asset_code")

\* C3: `pay` with sender username u and auth token t: the bearer material is
\* exactly u, ':' and t, the request is POST {node}/accounts/{u}/payments and
\* the JSON body has no sender_username key.
C3_PayBearer ==
    (Done /\ category = "pay" /\ Valued(AuthKey) /\ Valued("sender_username")) =>
        /\ Len(sent) = 1
        /\ sent[1].bearer = <<First("sender_username") \o ":" \o First(AuthKey)>>
        /\ sent[1].bearer # <<First(AuthKey)>>
        /\ sent[1].method = "POST"
        /\ sent[1].url =
              node_url \o "/accounts/" \o First("sender_username") \o "/payments"
        /\ sent[1].body.kind = "json"
        /\ "sender_username" \notin DOMAIN sent[1].body.json

C3_Witness ==
    /\ Done /\ category = "pay"
    /\ Valued(AuthKey) /\ First(AuthKey) = "secret"
    /\ Valued("sender_username")
    /\ Len(sent) = 1
    /\ sent[1].bearer = <<"bob:secret">>

\* the three commands that are sent without authentication
Unauthenticated ==
    \/ category = "rates" /\ action = "list"
    \/ category = "routes" /\ action = "list"
    \/ category = "status"

\* C4: `rates list`, `routes list` and `status` build and send their request
\* without a bearer header and without calling the extractor, whether or not
\* an authorization_key is among the arguments.
C4_NoBearer ==
    (Done /\ Unauthenticated) =>
        /\ Len(sent) = 1
        /\ sent[1].bearer = <<>>
        /\ extracted.fn = ""
        /\ result.kind \in {"Response", "ClientErr"}

C4_Witness ==
    /\ Done /\ category = "rates" /\ action = "list"
    /\ Valued(AuthKey)
    /\ Len(sent) = 1
    /\ sent[1].bearer = <<>>
    /\ sent[1].url = "http://localhost:7770/rates"

\* C5: when the auth key is missing, extract_args and unflatten_pairs fail
\* with a recoverable MissingAuthToken error result, not a crash, and no
\* request is issued.
C5_MissingAuthToken ==
    (Done /\ extracted.fn # "" /\ ~Valued(AuthKey)) =>
        /\ result.kind = "MissingAuthToken"
        /\ sent = <<>>

\* the dispatch table of run(), as the set of its command paths
NeedsAction == {"accounts", "rates", "routes", "settlement-engines"}

TableActions(c) ==
    CASE c = "accounts" -> {"balance", "create", "delete", "incoming-payments",
                            "info", "list", "update"}
      [] c = "rates" -> {"list", "set-all"}
      [] c = "routes" -> {"list", "set", "set-all"}
      [] c = "settlement-engines" -> {"set-all"}
      [] OTHER -> {}

InTable ==
    \/ category \in {"pay", "status"}
    \/ category \in NeedsAction /\ action \in TableActions(category)

Resolved == handler # ""
UsageError == result.kind = "UsageErr"
UnrecognizedCommand ==
    handler = "" /\ result.kind = "Panic" /\ extracted.fn = ""

\* C6: dispatch ends in exactly one of three outcomes: a resolved handler;
\* a UsageErr, given exactly when there is no category or no action for a
\* category that needs one (not pay, not status); or, for an action that is
\* not in the table of a known category, an unrecognized-command outcome that
\* is no UsageErr, resolves no handler and issues no request.
C6_DispatchOutcomes ==
    (pc # "start") =>
        /\ \/ Resolved /\ ~UsageError /\ ~UnrecognizedCommand
           \/ ~Resolved /\ UsageError /\ ~UnrecognizedCommand
           \/ ~Resolved /\ ~UsageError /\ UnrecognizedCommand
        /\ UsageError <=>
              \/ category = ""
              \/ category \in NeedsAction /\ action = ""
        /\ Resolved <=> InTable
        /\ (category \in NeedsAction /\ action # ""
                /\ action \notin TableActions(category))
              => UnrecognizedCommand
        /\ (UsageError \/ UnrecognizedCommand) => (Done /\ sent = <<>>)

C6_Witness ==
    /\ Done
    /\ category = "routes" /\ action = "other"
    /\ UnrecognizedCommand
    /\ result.kind # "UsageErr"
    /\ sent = <<>>

\* the three batch commands, whose body unflatten_pairs builds
Batch ==
    /\ action = "set-all"
    /\ category \in {"rates", "routes", "settlement-engines"}

\* the PairMap of an even-length flat sequence k1,v1,...,kn,vn: each key
\* mapped to the value of its last occurrence
PairMapOf(flat) ==
    LET n == Len(flat) \div 2
        last(k) == CHOOSE j \in 1..n :
                      /\ flat[2 * j - 1] = k
                      /\ \A i \in 1..n : flat[2 * i - 1] = k => i <= j
    IN  [k \in {flat[2 * i - 1] : i \in 1..n} |-> flat[2 * last(k)]]

DistinctKeys(flat) ==
    \A i, j \in 1..(Len(flat) \div 2) :
        flat[2 * i - 1] = flat[2 * j - 1] => i = j

\* C7: with the auth key present, an even-length `halve` list
\* k1,v1,...,kn,vn gives the PairMap {k1:v1,...,kn:vn}, a later duplicate key
\* overwriting an earlier one (n entries when the keys differ); an absent
\* `halve` gives the empty PairMap.
C7_UnflattenEven ==
    (Done /\ Batch /\ Valued(AuthKey)) =>
        /\ extracted.fn = "unflatten_pairs"
        /\ extracted.panic = ""
        /\ Len(sent) = 1
        /\ sent[1].body = [kind |-> "json", json |-> extracted.args, raw |-> ""]
        /\ "halve" \notin DOMAIN args => extracted.args = [k \in {} |-> ""]
        /\ ("halve" \in DOMAIN args /\ Len(args["halve"]) % 2 = 0) =>
              /\ extracted.args = PairMapOf(args["halve"])
              /\ DistinctKeys(args["halve"]) =>
                    Cardinality(DOMAIN extracted.args) = Len(args["halve"]) \div 2

C7_Witness ==
    /\ Done /\ Batch /\ Valued(AuthKey)
    /\ "halve" \in DOMAIN args
    /\ args["halve"] = <<"a", "a", "a", "b">>
    /\ Len(sent) = 1
    /\ sent[1].body.json = [k \in {"a"} |-> "b"]

\* C8: an odd-length `halve` list of length 2n+1 gives the PairMap of its
\* prefix of length 2n: the windows taken start at the even positions
\* 0,2,...,2n-2 only, so the last token is in no window and no odd-position
\* token is a key.
C8_UnflattenOdd ==
    (Done /\ Batch /\ Valued(AuthKey) /\ "halve" \in DOMAIN args
          /\ Len(args["halve"]) % 2 = 1) =>
        LET flat == args["halve"]
            n == Len(flat) \div 2
            starts == PairStarts(flat)
        IN  /\ extracted.panic = ""
            /\ extracted.args = PairMapOf(SubSeq(flat, 1, 2 * n))
            /\ Len(sent) = 1
            /\ sent[1].body.json = PairMapOf(SubSeq(flat, 1, 2 * n))
            /\ Len(starts) = n
            /\ \A i \in 1..Len(starts) :
                  /\ starts[i] = 2 * (i - 1)
                  /\ starts[i] + 1 < Len(flat) - 1

C8_Witness ==
    /\ Done /\ Batch /\ Valued(AuthKey)
    /\ "halve" \in DOMAIN args
    /\ args["halve"] = <<"a", "b", "b">>
    /\ Len(sent) = 1
    /\ sent[1].body.json = [k \in {"a"} |-> "b"]

\* C9: when the auth key is among the arguments, extract_args returns its
\* first value unchanged as the token and a map that never holds the auth
\* key: exactly the other names with a captured value, each with its first
\* value; the names matched without a value (overwrite, is_admin) are not
\* in it, nor in a JSON body built from it.
C9_ExtractArgs ==
    (Done /\ extracted.fn = "extract_args" /\ Valued(AuthKey)) =>
        /\ extracted.panic = ""
        /\ extracted.auth = First(AuthKey)
        /\ AuthKey \notin DOMAIN extracted.args
        /\ DOMAIN extracted.args = PayloadNames
        /\ \A n \in PayloadNames : extracted.args[n] = First(n)
        /\ \A n \in DOMAIN args : Len(args[n]) = 0 => n \notin DOMAIN extracted.args
        /\ (Len(sent) = 1 /\ sent[1].body.kind = "json") =>
              /\ DOMAIN sent[1].body.json \subseteq PayloadNames
              /\ \A n \in DOMAIN sent[1].body.json :
                    sent[1].body.json[n] = First(n)

C9_Witness ==
    /\ On("accounts", "create")
    /\ Valued(AuthKey) /\ Len(args[AuthKey]) = 2
    /\ "overwrite" \in DOMAIN args /\ "is_admin" \in DOMAIN args
    /\ Valued("asset_code") /\ Len(args["asset_code"]) = 2
    /\ extracted.auth = "hunter2"
    /\ "asset_code" \in DOMAIN extracted.args
    /\ extracted.args["asset_code"] = "XRP"
    /\ "overwrite" \notin DOMAIN extracted.args
    /\ Len(sent) = 1

\* the arguments the handler of the command path reads are all given
RequiredGiven ==
    CASE category = "accounts" /\ action \in {"balance", "delete", "info", "update"}
            -> Valued(AuthKey) /\ Valued("username")
      [] category = "accounts" /\ action = "create"
            -> Valued(AuthKey) /\ ("overwrite" \in DOMAIN args \/ Valued("username"))
      [] category = "accounts" /\ action = "list" -> Valued(AuthKey)
      [] category = "pay" -> Valued(AuthKey) /\ Valued("sender_username")
      [] Batch -> Valued(AuthKey)
      [] category = "routes" /\ action = "set"
            -> Valued(AuthKey) /\ Valued("prefix") /\ Valued("destination")
      [] OTHER -> TRUE

\* C10 as stated: every command path of the dispatch table, `accounts
\* incoming-payments` included, issues exactly one network call before the
\* process ends.
C10_Original ==
    (Done /\ InTable /\ RequiredGiven) => Len(sent) = 1

\* C10 amended: no execution issues two requests; a request is issued
\* exactly when the handler reaches send(), which every command path of the
\* table other than `accounts incoming-payments` does when the arguments its
\* handler reads are given; `accounts incoming-payments` is unimplemented and
\* issues none, as does every run that ends in a usage error or a panic.
C10_AtMostOneRequest ==
    /\ Len(sent) <= 1
    /\ ~Done => sent = <<>>
    /\ Done =>
        /\ Len(sent) = 1 <=> result.kind \in {"Response", "ClientErr"}
        /\ (category = "accounts" /\ action = "incoming-payments") =>
              sent = <<>> /\ result.kind = "Panic"
        /\ (InTable /\ RequiredGiven
                /\ ~(category = "accounts" /\ action = "incoming-payments"))
              => Len(sent) = 1

C10_Witness ==
    /\ On("routes", "set")
    /\ RequiredGiven
    /\ Len(sent) = 1
    /\ sent[1].body = [kind |-> "raw", json |-> [k \in {} |-> ""], raw |-> "peer.usd"]
    /\ sent[1].url = "http://localhost:7770/routes/static/g.usd"

====
